---- MODULE Spec2Model ----
(***************************************************************************)
(* Model of simkube's k8s manifest generator (src/k8s).                    *)
(*                                                                         *)
(* Python strings are TLA+ strings; os.getenv results are <<>> (None) or   *)
(* <<v>>.  The filesystem is a function from full path strings to file     *)
(* contents plus a set of directories.  Image files hold strings, every    *)
(* other file holds a record with a kind field.                            *)
(*                                                                         *)
(* main.py builds its registry from SkTracer and SkCtrl.  SkTracer is      *)
(* src/k8s/sk_tracer.py.  The class SkCtrl that main.py imports is not in  *)
(* the sources at hand: sk_ctrl.py there holds the controller as the chart *)
(* SKController, which takes no image and no debug flag and cannot be      *)
(* called the way main.py calls SkCtrl.  SkCtrl therefore follows the      *)
(* documented contract (it takes the image and the debug flag main passes, *)
(* and its id is the one the manifest names in main.py carry); no property *)
(* below is decided by what SkCtrl does with the debug flag.  The charts   *)
(* SKController, SKCloudProv and SKVnode, which resolve their own image,   *)
(* are modelled from their sources as operations of their own, constructed *)
(* in a process whose environment may already hold KUSTOMIZE, the variable *)
(* main.py exports to tell the packages that the run is a kustomize run.   *)
(***************************************************************************)
EXTENDS Integers, Sequences, FiniteSets, TLC

VARIABLES ambient, environ, fs, dirs, pc, kustomize, images, reads, apps,
          compiled, written, madeDirs, error, run, prev, chart

vars == <<ambient, environ, fs, dirs, pc, kustomize, images, reads, apps,
          compiled, written, madeDirs, error, run, prev, chart>>

----------------------------------------------------------------------------
(* Bounds *)

MaxLen == 2
MaxRuns == 2

----------------------------------------------------------------------------
(* Strings, environment values, inputs *)

NoneVal == <<>>

Whitespace == {"\n"}
Alphabet == {"a"} \cup Whitespace

RECURSIVE StringsOfLen(_)
StringsOfLen(n) ==
    IF n = 0 THEN {""}
    ELSE {s \o c : s \in StringsOfLen(n - 1), c \in Alphabet}

FileContents == UNION {StringsOfLen(n) : n \in 0..MaxLen}

Versions == {"1.2.3", "0.4"}
BuildDirs == {".build"}

\* f"{v}" of an os.getenv result
Str(v) == IF v = NoneVal THEN "None" ELSE v[1]

\* str.strip(): leading and trailing whitespace removed
RECURSIVE LStrip(_)
LStrip(s) ==
    IF s = "" THEN ""
    ELSE IF Head(s) \in Whitespace THEN LStrip(Tail(s)) ELSE s

RECURSIVE RStrip(_)
RStrip(s) ==
    IF s = "" THEN ""
    ELSE IF SubSeq(s, Len(s), Len(s)) \in Whitespace
         THEN RStrip(SubSeq(s, 1, Len(s) - 1))
         ELSE s

Strip(s) == RStrip(LStrip(s))

----------------------------------------------------------------------------
(* Program constants *)

DAG_FILENAME == "dag.mermaid"
DIFF_FILENAME == "k8s.df"

KUSTOMIZATION_YML_BASE ==
    [kind |-> "kustomization", resources |-> <<"sk-namespace.yml">>]
KUSTOMIZATION_YML_PROD ==
    [kind |-> "kustomization",
     resources |-> <<"../base", "sk-tracer-rbac.yml", "sk-tracer.yml">>]
KUSTOMIZATION_YML_SIM ==
    [kind |-> "kustomization",
     resources |-> <<"../base", "simkube.io_simulations.yml", "sk-ctrl.yml">>]

QUAY_IO_PREFIX == "quay.io/appliedcomputing"

PLACEHOLDER == "PLACEHOLDER"

SKCTRL_ID == "sk-ctrl"
SKTRACER_ID == "sk-tracer"
CLOUDPROV_ID == "sk-cloudprov"
VNODE_ID == "sk-vnode"
DRIVER_ID == "sk-driver"

\* SkCtrl.id(), as in "0002-sk-ctrl.k8s.yaml"
SkCtrl_id == "sk-ctrl"

\* apps = [SkTracer, SkCtrl]; app.id() of each class
RegistryApps == <<[cls |-> "SkTracer", id |-> SKTRACER_ID],
                  [cls |-> "SkCtrl", id |-> SkCtrl_id]>>

----------------------------------------------------------------------------
(* Filesystem primitives.  A step record st carries the filesystem, the    *)
(* directories, what this run has written and created, and the exception   *)
(* raised so far ("" when none); a step after a raise does nothing.        *)

ImagePath(build_dir, id) == build_dir \o "/" \o id \o "-image"

Put(f, path, data) ==
    [p \in DOMAIN f \cup {path} |-> IF p = path THEN data ELSE f[p]]

Remove(f, path) == [p \in DOMAIN f \ {path} |-> f[p]]

\* os.makedirs(path, exist_ok=True), parent being the directory above it
MakeDirs(st, parent, name) ==
    LET path == parent \o "/" \o name IN
    IF st.raised # "" THEN st
    ELSE IF path \in DOMAIN st.fs THEN [st EXCEPT !.raised = "FileExistsError"]
    ELSE [st EXCEPT !.dirs = @ \cup {parent, path},
                    !.madeDirs = @ \cup ({parent, path} \ st.dirs)]

\* with open(path, "w") as f: f.write(data)
WriteFile(st, dir, name, data) ==
    LET path == dir \o "/" \o name IN
    IF st.raised # "" THEN st
    ELSE IF dir \notin st.dirs THEN [st EXCEPT !.raised = "FileNotFoundError"]
    ELSE IF path \in st.dirs THEN [st EXCEPT !.raised = "IsADirectoryError"]
    ELSE [st EXCEPT !.fs = Put(@, path, data),
                    !.written = @ \cup {path}]

\* os.rename(src, dst)
Rename(st, src, dstDir, dstName) ==
    LET dst == dstDir \o "/" \o dstName IN
    IF st.raised # "" THEN st
    ELSE IF src \notin DOMAIN st.fs \/ dstDir \notin st.dirs
         THEN [st EXCEPT !.raised = "FileNotFoundError"]
    ELSE [st EXCEPT !.fs = Put(Remove(@, src), dst, st.fs[src]),
                    !.written = @ \cup {dst}]

----------------------------------------------------------------------------
(* Image resolution *)

\* get_images pairing the images with the applications in reverse
get_images_reversed(to_build, kustomize_, build_dir, env, f) ==
    IF kustomize_
    THEN [raised |-> "",
          images |-> [i \in DOMAIN to_build |->
                        QUAY_IO_PREFIX \o "/"
                            \o to_build[Len(to_build) + 1 - i].id \o ":v"
                            \o Str(env["APP_VERSION"])],
          reads |-> {}]
    ELSE IF to_build # <<>> /\ build_dir = NoneVal
    THEN [raised |-> "TypeError", images |-> <<>>, reads |-> {}]
    ELSE [raised |-> "",
          images |-> [i \in DOMAIN to_build |->
                        LET path == ImagePath(build_dir[1],
                                      to_build[Len(to_build) + 1 - i].id) IN
                        IF path \in DOMAIN f THEN f[path] ELSE PLACEHOLDER],
          reads |-> {ImagePath(build_dir[1], to_build[i].id) :
                        i \in DOMAIN to_build}]

\* get_images(to_build, kustomize, build_dir); env is os.environ, f the
\* filesystem.  Returns the images, the files opened and the exception.
get_images(to_build, kustomize_, build_dir, env, f) ==
    IF kustomize_
    THEN [raised |-> "",
          images |-> [i \in DOMAIN to_build |->
                        QUAY_IO_PREFIX \o "/" \o to_build[i].id \o ":v"
                            \o Str(env["APP_VERSION"])],
          reads |-> {}]
    ELSE IF to_build # <<>> /\ build_dir = NoneVal
    THEN [raised |-> "TypeError", images |-> <<>>, reads |-> {}]
    ELSE [raised |-> "",
          images |-> [i \in DOMAIN to_build |->
                        LET path == ImagePath(build_dir[1], to_build[i].id) IN
                        IF path \in DOMAIN f THEN f[path] ELSE PLACEHOLDER],
          reads |-> {ImagePath(build_dir[1], to_build[i].id) :
                        i \in DOMAIN to_build}]

----------------------------------------------------------------------------
(* Application packages.  A package is what the chart gets: the container  *)
(* image, whether the container has Capability.DEBUG, and whether the      *)
(* deployment has the kind-worker node selector.                           *)

NoPkg == [id |-> "", image |-> "", args |-> <<>>, debugCap |-> FALSE,
          nodeSelector |-> FALSE]

\* SkTracer(image, debug)
SkTracer(image, debug, env) ==
    [id |-> SKTRACER_ID,
     image |-> image,
     args |-> <<"/sk-tracer", "--server-port", "7777", "-c",
                "/config/tracer-config.yml">>,
     debugCap |-> debug,
     nodeSelector |-> (env["KUSTOMIZE"] = NoneVal)]

\* SkCtrl(image, debug): the container runs the image it is given, has the
\* debug capability exactly when debug is set, and the deployment gets the
\* node selector exactly in the mode that enables debug
SkCtrl(image, debug) ==
    [id |-> SkCtrl_id,
     image |-> image,
     args |-> <<"/sk-ctrl">>,
     debugCap |-> debug,
     nodeSelector |-> debug]

\* SKController()
SKController(env, f) ==
    IF env["BUILD_DIR"] = NoneVal
    THEN [raised |-> "TypeError", pkg |-> NoPkg]
    ELSE LET imagePath == ImagePath(env["BUILD_DIR"][1], SKCTRL_ID)
             driverPath == ImagePath(env["BUILD_DIR"][1], DRIVER_ID)
             image == IF imagePath \in DOMAIN f THEN f[imagePath]
                      ELSE PLACEHOLDER
             driver_image == IF driverPath \in DOMAIN f THEN f[driverPath]
                             ELSE PLACEHOLDER
         IN [raised |-> "",
             pkg |-> [id |-> SKCTRL_ID,
                      image |-> image,
                      args |-> <<"/sk-ctrl", "--driver-image", driver_image,
                                 "--use-cert-manager",
                                 "--cert-manager-issuer", "selfsigned">>,
                      debugCap |-> TRUE,
                      nodeSelector |-> TRUE]]

\* SKCloudProv(scope, namespace)
SKCloudProv(env, f) ==
    IF env["BUILD_DIR"] = NoneVal
    THEN [raised |-> "TypeError", pkg |-> NoPkg]
    ELSE LET imagePath == ImagePath(env["BUILD_DIR"][1], CLOUDPROV_ID)
             image == IF imagePath \in DOMAIN f THEN f[imagePath]
                      ELSE PLACEHOLDER
         IN [raised |-> "",
             pkg |-> [id |-> CLOUDPROV_ID,
                      image |-> image,
                      args |-> <<"/sk-cloudprov">>,
                      debugCap |-> TRUE,
                      nodeSelector |-> TRUE]]

\* SKVnode(scope, namespace)
SKVnode(env, f) ==
    IF env["BUILD_DIR"] = NoneVal
    THEN [raised |-> "TypeError", pkg |-> NoPkg]
    ELSE LET imagePath == ImagePath(env["BUILD_DIR"][1], VNODE_ID) IN
         IF imagePath \notin DOMAIN f
         THEN [raised |-> "FileNotFoundError", pkg |-> NoPkg]
         ELSE [raised |-> "",
               pkg |-> [id |-> VNODE_ID,
                        image |-> f[imagePath],
                        args |-> <<"/sk-vnode", "--node-skeleton",
                                   "/config/node-skeleton">>,
                        debugCap |-> TRUE,
                        nodeSelector |-> TRUE]]

----------------------------------------------------------------------------
(* Manifest assembly and output *)

NoCompiled == [graph |-> [kind |-> "none"], diff |-> [kind |-> "none"]]

\* "0001-sk-tracer.k8s.yaml": the chart files the library emits, numbered
\* in registry order after the global chart
ChartFile(i, id) == "000" \o ToString(i) \o "-" \o id \o ".k8s.yaml"

\* fire.compile({"simkube": pkgs}, dag_path): the rendered graph and diff,
\* and the numbered manifests left in the build directory.  Nothing is
\* emitted when BUILD_DIR is unset or the directory does not exist; the
\* library creates no directory of the model's filesystem.
FireCompile(pkgs, build_dir, f, ds) ==
    LET b == Str(build_dir)
        global == b \o "/" \o ChartFile(0, "global")
        emitted == IF build_dir = NoneVal \/ b \notin ds THEN {}
                   ELSE {global} \cup
                        {b \o "/" \o ChartFile(i, pkgs[i].id) :
                            i \in DOMAIN pkgs}
        content(p) ==
            IF p = global THEN [kind |-> "namespace", pkg |-> NoPkg]
            ELSE LET i == CHOOSE j \in DOMAIN pkgs :
                              p = b \o "/" \o ChartFile(j, pkgs[j].id)
                 IN [kind |-> "deployment", pkg |-> pkgs[i]]
    IN [graph |-> [kind |-> "dag",
                   nodes |-> [i \in DOMAIN pkgs |-> pkgs[i].id]],
        diff |-> [kind |-> "diff", pkgs |-> pkgs],
        fs |-> [p \in DOMAIN f \cup emitted |->
                  IF p \in emitted THEN content(p) ELSE f[p]]]

\* write_kustomize_files moving the simulation CRD into prod instead of sim
write_kustomize_files_crd_in_prod(st, b) ==
    LET s1 == MakeDirs(st, b, "base")
        s2 == MakeDirs(s1, b, "prod")
        s3 == MakeDirs(s2, b, "sim")
        s4 == WriteFile(s3, b \o "/base", "kustomization.yml",
                        KUSTOMIZATION_YML_BASE)
        s5 == WriteFile(s4, b \o "/prod", "kustomization.yml",
                        KUSTOMIZATION_YML_PROD)
        s6 == WriteFile(s5, b \o "/sim", "kustomization.yml",
                        KUSTOMIZATION_YML_SIM)
        s7 == Rename(s6, b \o "/0000-global.k8s.yaml",
                     b \o "/base", "sk-namespace.yml")
        s8 == Rename(s7, b \o "/0001-sk-tracer.k8s.yaml",
                     b \o "/prod", "sk-tracer.yml")
        s9 == Rename(s8, b \o "/sk-tracer-rbac.yml",
                     b \o "/prod", "sk-tracer-rbac.yml")
        s10 == Rename(s9, b \o "/0002-sk-ctrl.k8s.yaml",
                      b \o "/sim", "sk-ctrl.yml")
        s11 == Rename(s10, b \o "/simkube.io_simulations.yml",
                      b \o "/prod", "simkube.io_simulations.yml")
    IN s11

\* write_kustomize_files(build_dir), b being the formatted build_dir
write_kustomize_files(st, b) ==
    LET s1 == MakeDirs(st, b, "base")
        s2 == MakeDirs(s1, b, "prod")
        s3 == MakeDirs(s2, b, "sim")
        s4 == WriteFile(s3, b \o "/base", "kustomization.yml",
                        KUSTOMIZATION_YML_BASE)
        s5 == WriteFile(s4, b \o "/prod", "kustomization.yml",
                        KUSTOMIZATION_YML_PROD)
        s6 == WriteFile(s5, b \o "/sim", "kustomization.yml",
                        KUSTOMIZATION_YML_SIM)
        s7 == Rename(s6, b \o "/0000-global.k8s.yaml",
                     b \o "/base", "sk-namespace.yml")
        s8 == Rename(s7, b \o "/0001-sk-tracer.k8s.yaml",
                     b \o "/prod", "sk-tracer.yml")
        s9 == Rename(s8, b \o "/sk-tracer-rbac.yml",
                     b \o "/prod", "sk-tracer-rbac.yml")
        s10 == Rename(s9, b \o "/0002-sk-ctrl.k8s.yaml",
                      b \o "/sim", "sk-ctrl.yml")
        s11 == Rename(s10, b \o "/simkube.io_simulations.yml",
                      b \o "/sim", "simkube.io_simulations.yml")
    IN s11

\* the else branch of main without the write of the diff
write_dag_only(st, b, graph, diff) ==
    WriteFile(st, b, DAG_FILENAME, graph)

\* the else branch of main: the diagram, then the diff
write_dag_and_diff(st, b, graph, diff) ==
    LET s1 == WriteFile(st, b, DAG_FILENAME, graph)
        s2 == WriteFile(s1, b, DIFF_FILENAME, diff)
    IN s2

----------------------------------------------------------------------------
(* State *)

Opt(S) == {NoneVal} \cup {<<x>> : x \in S}

\* the files of an assignment of optional contents to paths
FsOf(assign) ==
    [p \in {q \in DOMAIN assign : assign[q] # NoneVal} |-> assign[p][1]]

Environments ==
    {[BUILD_DIR |-> b, APP_VERSION |-> v, KUSTOMIZE |-> k] :
        b \in Opt(BuildDirs), v \in Opt(Versions), k \in Opt({"1"})}

NoPrev == [flag |-> FALSE, status |-> "none", fs |-> <<>>, dirs |-> {}]
NoChart == [comp |-> "", raised |-> "", pkg |-> NoPkg]

InitRun ==
    /\ environ = ambient
    /\ pc = "idle"
    /\ kustomize = FALSE
    /\ images = <<>>
    /\ reads = {}
    /\ apps = <<>>
    /\ compiled = NoCompiled
    /\ written = {}
    /\ madeDirs = {}
    /\ error = ""
    /\ run = 0
    /\ prev = NoPrev
    /\ chart = NoChart

\* the environment the generator is started in and the build directory
\* before it runs: absent, or holding the image files the build has written
\* so far and the two static manifests beside them
Init ==
    /\ ambient \in Environments
    /\ \/ /\ dirs = {}
          /\ fs = FsOf(<<>>)
       \/ /\ dirs = BuildDirs
          /\ \E t \in Opt(FileContents), c \in Opt(FileContents),
                r \in Opt({[kind |-> "rbac"]}),
                s \in Opt({[kind |-> "crd"]}) :
                fs = FsOf((ImagePath(".build", SKTRACER_ID) :> t)
                          @@ (ImagePath(".build", SkCtrl_id) :> c)
                          @@ (".build/sk-tracer-rbac.yml" :> r)
                          @@ (".build/simkube.io_simulations.yml" :> s))
    /\ InitRun

\* the build directories the resolvers of all four components read
InitResolve ==
    /\ ambient \in {e \in Environments : e.APP_VERSION = NoneVal}
    /\ dirs = BuildDirs
    /\ \E t \in Opt(FileContents), c \in Opt(FileContents),
          p \in Opt(FileContents), v \in Opt(FileContents),
          d \in Opt({"drv:1"}) :
          fs = FsOf((ImagePath(".build", SKTRACER_ID) :> t)
                    @@ (ImagePath(".build", SKCTRL_ID) :> c)
                    @@ (ImagePath(".build", CLOUDPROV_ID) :> p)
                    @@ (ImagePath(".build", VNODE_ID) :> v)
                    @@ (ImagePath(".build", DRIVER_ID) :> d))
    /\ InitRun

----------------------------------------------------------------------------
(* main() *)

\* setup_args, the KUSTOMIZE export, BUILD_DIR, get_images
StartRun(flag) ==
    /\ pc = "idle"
    /\ run < MaxRuns
    /\ LET env1 == IF flag THEN [ambient EXCEPT !.KUSTOMIZE = <<"1">>]
                   ELSE ambient
           r == get_images(RegistryApps, flag, env1.BUILD_DIR, env1, fs)
       IN /\ environ' = env1
          /\ images' = r.images
          /\ reads' = r.reads
          /\ error' = r.raised
          /\ pc' = IF r.raised = "" THEN "images" ELSE "failed"
    /\ kustomize' = flag
    /\ run' = run + 1
    /\ apps' = <<>>
    /\ compiled' = NoCompiled
    /\ written' = {}
    /\ madeDirs' = {}
    /\ UNCHANGED <<ambient, fs, dirs, prev, chart>>

\* the packages are constructed, then fire.compile
Compile ==
    /\ pc = "images"
    /\ LET debug == ~kustomize
           pkgs == <<SkTracer(images[1], debug, environ),
                     SkCtrl(images[2], debug)>>
           c == FireCompile(pkgs, environ.BUILD_DIR, fs, dirs)
       IN /\ pc' = "compiled"
          /\ apps' = pkgs
          /\ compiled' = [graph |-> c.graph, diff |-> c.diff]
          /\ fs' = c.fs
          /\ UNCHANGED error
    /\ UNCHANGED <<ambient, environ, dirs, kustomize, images, reads, written,
                   madeDirs, run, prev, chart>>

\* write_kustomize_files, or the diagram and the diff
Output ==
    /\ pc = "compiled"
    /\ LET b == Str(environ.BUILD_DIR)
           st == [fs |-> fs, dirs |-> dirs, written |-> written,
                  madeDirs |-> madeDirs, raised |-> ""]
           out == IF kustomize THEN write_kustomize_files(st, b)
                  ELSE write_dag_and_diff(st, b, compiled.graph,
                                          compiled.diff)
       IN /\ fs' = out.fs
          /\ dirs' = out.dirs
          /\ written' = out.written
          /\ madeDirs' = out.madeDirs
          /\ error' = out.raised
          /\ pc' = IF out.raised = "" THEN "done" ELSE "failed"
    /\ UNCHANGED <<ambient, environ, kustomize, images, reads, apps, compiled,
                   run, prev, chart>>

\* the process exits; the build directory stays as the run left it
Exit ==
    /\ pc \in {"done", "failed"}
    /\ pc' = "idle"
    /\ prev' = [flag |-> kustomize, status |-> pc, fs |-> fs, dirs |-> dirs]
    /\ UNCHANGED <<ambient, environ, fs, dirs, kustomize, images, reads, apps,
                   compiled, written, madeDirs, error, run, chart>>

----------------------------------------------------------------------------
(* The charts that resolve their own image *)

NewChart(name, r) ==
    /\ pc = "idle"
    /\ run = 0
    /\ chart' = [comp |-> name, raised |-> r.raised, pkg |-> r.pkg]
    /\ UNCHANGED <<ambient, environ, fs, dirs, pc, kustomize, images, reads,
                   apps, compiled, written, madeDirs, error, run, prev>>

NewSKController == NewChart("SKController", SKController(ambient, fs))
NewSKCloudProv == NewChart("SKCloudProv", SKCloudProv(ambient, fs))
NewSKVnode == NewChart("SKVnode", SKVnode(ambient, fs))

----------------------------------------------------------------------------
(* Specifications *)

Next ==
    \/ \E flag \in BOOLEAN : StartRun(flag)
    \/ Compile
    \/ Output
    \/ Exit

Spec == Init /\ [][Next]_vars

NextResolve ==
    \/ StartRun(FALSE)
    \/ NewSKController
    \/ NewSKCloudProv
    \/ NewSKVnode

SpecResolve == InitResolve /\ [][NextResolve]_vars

----------------------------------------------------------------------------
(* Properties *)

Running == pc \in {"images", "compiled", "done", "failed"}

BuildDir == Str(environ.BUILD_DIR)

Overlays == {"base", "prod", "sim"}

ChartIds == [SKController |-> SKCTRL_ID, SKCloudProv |-> CLOUDPROV_ID,
             SKVnode |-> VNODE_ID]

\* C1: in a run without --kustomize, an application whose image file is
\* missing from the build directory gets the image "PLACEHOLDER" and nothing
\* is raised, in get_images and in each chart that resolves its own image.
C1_MissingImageIsPlaceholder ==
    /\ (Running /\ ~kustomize /\ environ.BUILD_DIR # NoneVal) =>
          /\ Len(images) = Len(RegistryApps)
          /\ \A i \in DOMAIN RegistryApps :
                ImagePath(BuildDir, RegistryApps[i].id) \notin DOMAIN fs
                    => images[i] = PLACEHOLDER
    /\ (chart.comp # "" /\ ambient.BUILD_DIR # NoneVal
            /\ ImagePath(Str(ambient.BUILD_DIR), ChartIds[chart.comp])
                  \notin DOMAIN fs) =>
          /\ chart.raised = ""
          /\ chart.pkg.image = PLACEHOLDER

\* C2: in a run without --kustomize, an application whose image file exists
\* gets exactly the file's contents with leading and trailing whitespace
\* removed.
C2_ImageIsTrimmedContents ==
    /\ (pc = "images" /\ ~kustomize) =>
          \A i \in DOMAIN RegistryApps :
             LET path == ImagePath(BuildDir, RegistryApps[i].id) IN
             path \in DOMAIN fs => images[i] = Strip(fs[path])
    /\ (chart.comp # "" /\ chart.raised = "") =>
          LET path == ImagePath(Str(ambient.BUILD_DIR), ChartIds[chart.comp])
          IN path \in DOMAIN fs => chart.pkg.image = Strip(fs[path])

\* C3: a --kustomize run with APP_VERSION unset fails before any image
\* reference exists; no reference is handed to manifest assembly.
C3_UnsetVersionIsFatal ==
    (Running /\ kustomize /\ environ.APP_VERSION = NoneVal) =>
        /\ pc = "failed"
        /\ images = <<>>
        /\ apps = <<>>

\* C4: a --kustomize run with APP_VERSION = V resolves the i-th image to
\* "quay.io/appliedcomputing/" + id of the i-th application + ":v" + V and
\* get_images opens no file of the build directory.
C4_ReleaseImageReference ==
    (Running /\ kustomize /\ environ.APP_VERSION # NoneVal) =>
        /\ Len(images) = Len(RegistryApps)
        /\ \A i \in DOMAIN RegistryApps :
              images[i] = "quay.io/appliedcomputing/" \o RegistryApps[i].id
                              \o ":v" \o environ.APP_VERSION[1]
        /\ environ.APP_VERSION = <<"1.2.3">> =>
              images[2] = "quay.io/appliedcomputing/sk-ctrl:v1.2.3"
        /\ reads = {}

C4_Witness ==
    /\ pc = "images"
    /\ kustomize
    /\ environ.APP_VERSION = <<"1.2.3">>
    /\ images = <<"quay.io/appliedcomputing/sk-tracer:v1.2.3",
                  "quay.io/appliedcomputing/sk-ctrl:v1.2.3">>

\* C5: every application container has the debug capability when the run
\* is not a kustomize run and none has it when it is: the packages of main's
\* registry by the flag, and a chart constructed on its own by the KUSTOMIZE
\* variable that main exports for the packages of a kustomize run.
C5_DebugFollowsMode ==
    /\ apps # <<>> => \A i \in DOMAIN apps : apps[i].debugCap = ~kustomize
    /\ (chart.comp # "" /\ chart.raised = "") =>
          chart.pkg.debugCap = (ambient.KUSTOMIZE = NoneVal)

\* C6: a run without --kustomize applies the node selector to every
\* deployment and enables debug whatever the ambient environment holds, and
\* in every run the two postures name the same mode.
C6_ModeChosenOnceFromFlag ==
    apps # <<>> =>
        \A i \in DOMAIN apps :
           /\ ~kustomize => (apps[i].nodeSelector /\ apps[i].debugCap)
           /\ apps[i].nodeSelector = apps[i].debugCap

\* C7: a successful run without --kustomize has written exactly dag.mermaid
\* and k8s.df and created no directory; a successful run with --kustomize
\* leaves exactly the overlay directories base, prod and sim, each holding a
\* kustomization.yml, and has written neither the diagram nor the diff.
C7_OutputShape ==
    /\ (pc = "done" /\ ~kustomize) =>
          /\ written = {BuildDir \o "/dag.mermaid", BuildDir \o "/k8s.df"}
          /\ written \subseteq DOMAIN fs
          /\ madeDirs = {}
    /\ (pc = "done" /\ kustomize) =>
          /\ dirs \ {BuildDir} = {BuildDir \o "/" \o o : o \in Overlays}
          /\ \A o \in Overlays :
                LET k == BuildDir \o "/" \o o \o "/kustomization.yml" IN
                /\ k \in DOMAIN fs
                /\ k \in written
                /\ fs[k].kind = "kustomization"
          /\ written \cap {BuildDir \o "/dag.mermaid",
                           BuildDir \o "/k8s.df"} = {}

C7_Witness ==
    /\ pc = "done"
    /\ kustomize
    /\ prev.status = "done"
    /\ ~prev.flag
    /\ ".build/dag.mermaid" \in DOMAIN fs
    /\ ".build/sim/kustomization.yml" \in written

\* C8: a failed run leaves none of its output behind: nothing it wrote or
\* moved and no directory it created.
C8_NoPartialOutput ==
    pc = "failed" => (written = {} /\ madeDirs = {})

\* C9: a run that follows a successful run with the same flag, environment
\* and build directory succeeds too and leaves the build directory as the
\* first run left it.
C9_Idempotent ==
    (pc \in {"done", "failed"} /\ prev.status = "done"
         /\ prev.flag = kustomize) =>
        /\ pc = "done"
        /\ fs = prev.fs
        /\ dirs = prev.dirs

Resolves(overlay, r) ==
    IF Len(r) > 3 /\ SubSeq(r, 1, 3) = "../"
    THEN LET d == BuildDir \o "/" \o SubSeq(r, 4, Len(r)) IN
         d \in dirs /\ (d \o "/kustomization.yml") \in DOMAIN fs
    ELSE (BuildDir \o "/" \o overlay \o "/" \o r) \in DOMAIN fs

RenamedManifests ==
    {"sk-namespace.yml", "sk-tracer.yml", "sk-tracer-rbac.yml", "sk-ctrl.yml",
     "simkube.io_simulations.yml"}

RenameSources ==
    {"0000-global.k8s.yaml", "0001-sk-tracer.k8s.yaml",
     "0002-sk-ctrl.k8s.yaml", "sk-tracer-rbac.yml",
     "simkube.io_simulations.yml"}

\* C10: after write_kustomize_files succeeds every resource a
\* kustomization.yml lists exists, each renamed manifest is in exactly one
\* overlay directory, none of the five source files is left at the root of
\* the build directory, and the numbered manifests renamed are those of the
\* registry's applications in order.
C10_KustomizeLayoutConsistent ==
    (pc = "done" /\ kustomize) =>
        /\ \A o \in Overlays :
              LET k == fs[BuildDir \o "/" \o o \o "/kustomization.yml"] IN
              \A j \in DOMAIN k.resources : Resolves(o, k.resources[j])
        /\ \A m \in RenamedManifests :
              Cardinality({o \in Overlays :
                  (BuildDir \o "/" \o o \o "/" \o m) \in DOMAIN fs}) = 1
        /\ \A src \in RenameSources :
              (BuildDir \o "/" \o src) \notin DOMAIN fs
        /\ fs[BuildDir \o "/base/sk-namespace.yml"].kind = "namespace"
        /\ fs[BuildDir \o "/prod/sk-tracer.yml"].pkg.id = RegistryApps[1].id
        /\ fs[BuildDir \o "/sim/sk-ctrl.yml"].pkg.id = RegistryApps[2].id
        /\ fs[BuildDir \o "/prod/sk-tracer-rbac.yml"].kind = "rbac"
        /\ fs[BuildDir \o "/sim/simkube.io_simulations.yml"].kind = "crd"

C10_Witness ==
    /\ pc = "done"
    /\ kustomize
    /\ ".build/sim/sk-ctrl.yml" \in written
    /\ ".build/prod/sk-tracer-rbac.yml" \in written
    /\ ".build/sk-tracer-rbac.yml" \notin DOMAIN fs

====
